---- MODULE Spec2Model ----
(***************************************************************************)
(* A model of android_emuroot.py: the kernel-version catalog, the search   *)
(* for a process's task_struct over a GDB stub, the walk up the process    *)
(* tree to adbd, the credential patch writes, and the three rooting modes  *)
(* with their background stager thread.                                    *)
(*                                                                         *)
(* Words are 32 bits.  TLC's integers are 32-bit signed, so an unsigned    *)
(* word u >= 2^31 is written as the integer u - 2^32 (0xFFFFFFFF is -1,    *)
(* 0xC0000000 is -1073741824).  Sums and differences of such numbers and   *)
(* their residues mod 16 agree with the unsigned ones as long as nothing   *)
(* wraps, and nothing here does.                                           *)
(*                                                                         *)
(* A Python value that is an int v is written PyInt(v) = <<v>>, None is   *)
(* <<>>.                                                                   *)
(***************************************************************************)
EXTENDS Integers, Sequences, FiniteSets, TLC

VARIABLES
  mode,             \* options.mode_function: "single", "setuid" or "adbd"
  stealth,          \* options.stealth
  uname,            \* what "uname -r" reports: [major, minor], minor a digit string
  options,          \* the resolved profile (offset_to_comm, ...), or NoOptions
  ip,               \* the main thread's position in MainProgram
  sub,              \* its position inside get_process_task_struct / get_adbd_cred_struct / a patch function
  outcome,          \* "running", "done", or the exception / exit that ended the run
  gdb,              \* the GdbController: "none", "open" or "closed"
  stops,            \* how many times stop() was called
  mem,              \* the target's memory, address -> word
  mem0,             \* the memory before the run (never changes)
  names,            \* the target's strings, address -> what x/s prints there (never changes)
  addresses,        \* get_process_task_struct: what find() returned
  candidates,       \* get_process_task_struct: the aligned addresses
  ci,               \* get_process_task_struct: index of the candidate under examination
  ptr1,             \* get_process_task_struct: magic_cred_ptr1
  magic,            \* the task_struct address get_process_task_struct returned
  cur,              \* get_adbd_cred_struct: cur
  parent,           \* get_adbd_cred_struct: parent_struct_addr
  adbd_cred_ptr,    \* the value get_adbd_cred_struct returned
  magic_cred_ptr,   \* the value read at magic + offset_to_comm - 8
  wq,               \* the writes the running patch function still has to issue
  lastRead,         \* the last read_mem call: its address, the word there, the responses and the result
  readLog,          \* the word reads get_process_task_struct issued: {[for, addr]}
  writeLog,         \* the addresses write_mem was called on, in order, since the last patch function began
  call,             \* the running or last patch function: its name, arguments and the memory it started from
  bg,               \* the adb_stager thread: "none", "started", "running" (the script sleeps), "chown" (the script is at its chown), "exited"
  cleaned,          \* whether stager_clean ran
  trace,            \* the calls of the mode function that returned, in order: [fn, arg]
  afterExit,        \* how many requests were sent to gdb after its exit
  checked           \* the state of the adb_stager thread when check_process_is_running listed the processes, "" before

vars == <<mode, stealth, uname, options, ip, sub, outcome, gdb, stops, mem, mem0,
          names, addresses, candidates, ci, ptr1, magic, cur, parent,
          adbd_cred_ptr, magic_cred_ptr, wq, lastRead, readLog, writeLog, call, bg,
          cleaned, trace, afterExit, checked>>

-----------------------------------------------------------------------------
(* Bounds of the model *)

\* the longest result of find()
MaxFound == 2
\* the longest minor version string
MaxMinorDigits == 2
\* the largest major version
MaxMajor == 4

-----------------------------------------------------------------------------
(* Python values *)

None == <<>>
PyInt(v) == <<v>>
IsInt(x) == Len(x) = 1
Val(x) == x[1]

NoOptions == [offset_to_comm |-> 0, offset_to_parent |-> 0,
              offset_selinux |-> <<>>, ps_cmd |-> ""]

-----------------------------------------------------------------------------
(* kernel_version *)

\* 0xC0000000, the start of the range find() searches
KernelBase == -1073741824

RECURSIVE Pow10(_)
Pow10(n) == IF n = 0 THEN 1 ELSE 10 * Pow10(n - 1)

RECURSIVE DigitsValue(_)
\* int() of a digit string
DigitsValue(ds) ==
  IF ds = <<>> THEN 0 ELSE 10 * DigitsValue(SubSeq(ds, 1, Len(ds) - 1)) + ds[Len(ds)]

\* the unit in which the model holds floats: 1.0 is VerScale
VerScale == Pow10(MaxMinorDigits + 1)

\* float(result[0] + "." + result[1]), in units of 1/VerScale: the minor
\* string is the decimal fraction, so "3.4" is 3.4 and "3.10" is 3.1
ParseVer(u) ==
  LET frac == DigitsValue(u.minor) * (VerScale \div Pow10(Len(u.minor)))
  IN IF u.major < 0 THEN u.major * VerScale - frac ELSE u.major * VerScale + frac

\* the float literals 3.10 and 3.18
Ver_3_10 == 3 * VerScale + VerScale \div 10
Ver_3_18 == 3 * VerScale + (18 * VerScale) \div 100

ProfileA == [offset_to_comm |-> 648,                      \* 0x288
             offset_to_parent |-> 224,                    \* 0xe0
             offset_selinux |-> <<KernelBase + 10974536,  \* 0xC0A77548
                                  KernelBase + 10974540,  \* 0xC0A7754C
                                  KernelBase + 10974544>>,\* 0xC0A77550
             ps_cmd |-> "ps"]

ProfileB == [offset_to_comm |-> 1092,                     \* 0x444
             offset_to_parent |-> 224,                    \* 0xe0
             offset_selinux |-> <<KernelBase + 12907144,  \* 0xC0C4F288
                                  KernelBase + 12907148,  \* 0xC0C4F28C
                                  KernelBase + 12907136>>,\* 0xC0C4F280
             ps_cmd |-> "ps -A"]

\* kernel_version with the elif's upper limit left out
kernel_version_open(ver) ==
  IF ver <= Ver_3_10 THEN ProfileA
  ELSE IF ver > Ver_3_10 THEN ProfileB
  ELSE NoOptions

\* the if / elif / else of kernel_version on ver: the profile, or NoOptions
\* where it raises NotImplementedError
kernel_version(ver) ==
  IF ver <= Ver_3_10 THEN ProfileA
  ELSE IF ver > Ver_3_10 /\ ver <= Ver_3_18 THEN ProfileB
  ELSE NoOptions

-----------------------------------------------------------------------------
(* The target's memory *)

\* the processes of the target: task_struct number n lies at NodeBase(n)
Nodes == {1, 2, 3}
NodeBase(n) == KernelBase + 65536 * n

\* the address of task n's comm field
NameAddr(o, n) == NodeBase(n) + o.offset_to_comm

\* a place where the searched name also occurs, 4 bytes off the comm alignment
StrayAddr(o) == NodeBase(4) + o.offset_to_comm + 4

\* the credential structures of the target
Creds == {1, 2}
CredAddr(k) == KernelBase + 2097152 + 256 * k

\* the words of struct cred the model holds: offsets 0x00 .. 0x44
CredFields == {4 * i : i \in 0..17}

\* A layout L gives each task its parent, its real_cred and cred pointers,
\* names the tasks called adbd, and says whether the two words before the
\* stray match are equal.
TaskWords(o, L, n) ==
  (NameAddr(o, n) - o.offset_to_parent :> NodeBase(L.parent[n]))
    @@ (NameAddr(o, n) - 8 :> CredAddr(L.rc[n]))
    @@ (NameAddr(o, n) - 4 :> CredAddr(L.cr[n]))

StrayWords(o, L) ==
  (StrayAddr(o) - 8 :> CredAddr(1))
    @@ (StrayAddr(o) - 4 :> IF L.ueq THEN CredAddr(1) ELSE CredAddr(2))

\* a credential of the shell user: usage 1, every id 2000, no capability
CredWords(k) ==
  [a \in {CredAddr(k) + f : f \in CredFields} |->
     LET f == a - CredAddr(k)
     IN IF f = 0 THEN 1 ELSE IF f <= 32 THEN 2000 ELSE 0]

\* selinux enforcing
SelinuxWords(o) == [a \in {o.offset_selinux[i] : i \in 1..3} |-> 1]

MemoryOf(o, L) ==
  TaskWords(o, L, 1) @@ TaskWords(o, L, 2) @@ TaskWords(o, L, 3)
    @@ StrayWords(o, L) @@ CredWords(1) @@ CredWords(2) @@ SelinuxWords(o)

NamesOf(o, L) ==
  [a \in {NameAddr(o, n) : n \in Nodes} |->
     LET n == CHOOSE m \in Nodes : NameAddr(o, m) = a
     IN IF n \in L.adbd THEN "\"adbd\"" ELSE "\"sh\""]

-----------------------------------------------------------------------------
(* GDB_stub_controller: the memory primitives *)

\* what the stub can answer to one "x/xw": a well-formed payload carrying the
\* word, or anything else (a timeout, a payload without the value)
ReadResponses(a) ==
  IF a \in DOMAIN mem THEN {<<"ok">>, <<"bad", "ok">>, <<"bad", "bad">>}
  ELSE {<<"bad", "bad">>}

RECURSIVE read_mem_no_stop(_, _, _)
\* read_mem that raises after the second malformed response without stop()
read_mem_no_stop(addr, rec, resps) ==
  IF Head(resps) = "ok"
  THEN [ret |-> PyInt(mem[addr]), raised |-> FALSE, stopped |-> FALSE, nreq |-> 1,
        evs |-> <<"x/xw">>]
  ELSE IF rec = 0
       THEN LET inner == read_mem_no_stop(addr, 1, Tail(resps))
            IN [ret |-> None, raised |-> inner.raised, stopped |-> inner.stopped,
                nreq |-> 1 + inner.nreq, evs |-> <<"x/xw">> \o inner.evs]
       ELSE [ret |-> None, raised |-> TRUE, stopped |-> FALSE, nreq |-> 1,
             evs |-> <<"x/xw">>]

RECURSIVE read_mem(_, _, _)
\* read_mem(addr, rec) under the responses resps, one per request:
\* ret is the value the call returns, raised whether it raises, stopped
\* whether it called stop(), nreq the requests it sent, evs what it sent
\* to gdb, in order
read_mem(addr, rec, resps) ==
  IF Head(resps) = "ok"
  THEN [ret |-> PyInt(mem[addr]), raised |-> FALSE, stopped |-> FALSE, nreq |-> 1,
        evs |-> <<"x/xw">>]
  ELSE IF rec = 0
       THEN LET inner == read_mem(addr, 1, Tail(resps))
            IN \* the recursive call's value is dropped: the except branch
               \* falls off its end and the call returns None
               [ret |-> None, raised |-> inner.raised, stopped |-> inner.stopped,
                nreq |-> 1 + inner.nreq, evs |-> <<"x/xw">> \o inner.evs]
       ELSE [ret |-> None, raised |-> TRUE, stopped |-> TRUE, nreq |-> 1,
             evs |-> <<"x/xw", "exit">>]

\* the record kept of a read_mem call
ReadRecord(addr, resps, r) ==
  [addr |-> addr, word |-> IF addr \in DOMAIN mem THEN mem[addr] ELSE 0,
   resps |-> resps, ret |-> r.ret, raised |-> r.raised, nreq |-> r.nreq]

NoRead ==
  [addr |-> 0, word |-> 0, resps |-> <<>>, ret |-> None, raised |-> FALSE, nreq |-> 0]

\* how read_str can raise: no answer in time, an answer of one record or a
\* payload without a tab, a second record whose payload is None
StrFailures == {"GdbTimeoutError", "IndexError", "AttributeError"}

\* what the stub can answer to one "x/s": the string there, or an answer
\* read_str raises on
StrResponses(a) == (IF a \in DOMAIN names THEN {"ok"} ELSE {}) \cup StrFailures

\* how find can raise: no answer in time, a record whose payload is None or
\* a dict (the result record, a notify record), a payload that starts with
\* "0x" and is not a number once its last two characters are cut
FindFailures == {"GdbTimeoutError", "AttributeError", "ValueError"}

\* what the stub can answer to one "set *(unsigned int*)": in time, not in
\* time with the word not written, not in time with the word written
WriteResponses == {"ok", "timeout", "late"}

\* the memory after gdb executed the write (a write outside the mapped
\* memory changes nothing)
Written(m, w) == IF w.addr \in DOMAIN m THEN [m EXCEPT ![w.addr] = w.val] ELSE m

\* 0xffffffff
AllCaps == -1

\* set_full_capabilities that leaves out the last word of the ambient set
set_full_capabilities_five(cred_addr) ==
  [i \in 1..5 |-> [addr |-> cred_addr + <<48, 52, 56, 60, 64>>[i], val |-> AllCaps]]

\* the write_mem calls of set_full_capabilities, in order
set_full_capabilities(cred_addr) ==
  [i \in 1..6 |-> [addr |-> cred_addr + <<48, 52, 56, 60, 64, 68>>[i], val |-> AllCaps]]

\* set_root_ids that ignores its effective argument
set_root_ids_all(cred_addr, effective) ==
  [i \in 1..8 |-> [addr |-> cred_addr + <<4, 8, 12, 16, 28, 32, 20, 24>>[i], val |-> 0]]

\* the write_mem calls of set_root_ids, in order
set_root_ids(cred_addr, effective) ==
  [i \in 1..6 |-> [addr |-> cred_addr + <<4, 8, 12, 16, 28, 32>>[i], val |-> 0]]
    \o (IF effective
        THEN <<[addr |-> cred_addr + 20, val |-> 0], [addr |-> cred_addr + 24, val |-> 0]>>
        ELSE <<>>)

\* disable_selinux that leaves out selinux_enforcing, its third address
disable_selinux_two(o) == [i \in 1..2 |-> [addr |-> o.offset_selinux[i], val |-> 0]]

\* the write_mem calls of disable_selinux, in order
disable_selinux(o) == [i \in 1..3 |-> [addr |-> o.offset_selinux[i], val |-> 0]]

\* the alignment test of get_process_task_struct
Aligned(o, addr) == addr % 16 = o.offset_to_comm % 16

\* candidates without the alignment filter
CandidatesUnfiltered(o, found) == found

\* candidates: the aligned addresses, in the order find() gave them
Candidates(o, found) == SelectSeq(found, LAMBDA a : Aligned(o, a))

\* magic_cred_ptr1 == magic_cred_ptr2 on Python values
PyEq(x, y) == x = y

\* what find() can return: the places the name occurs at, without repetition
FindPool(o) == {NameAddr(o, n) : n \in Nodes} \cup {StrayAddr(o)}
FindResults(o) ==
  {s \in UNION {[1..k -> FindPool(o)] : k \in 0..MaxFound} :
     \A i, j \in DOMAIN s : i # j => s[i] # s[j]}

-----------------------------------------------------------------------------
(* The modes *)

\* single_mode that closes the session before it disables selinux
single_mode_stop_early ==
  <<"check", "connect", "locate", "read_cred", "ids_magic", "caps_magic", "stop",
    "selinux">>

single_mode == <<"check", "connect", "locate", "read_cred", "ids_magic",
                 "caps_magic", "selinux", "stop">>

\* setuid_mode that disables selinux before it patches the daemon
setuid_mode_selinux_first ==
  <<"thread_start", "sleep", "check", "connect", "locate", "walk", "selinux",
    "caps_adbd", "read_cred", "ids_magic", "caps_magic", "stop", "clean">>

setuid_mode == <<"thread_start", "sleep", "check", "connect", "locate", "walk",
                 "caps_adbd", "selinux", "read_cred", "ids_magic", "caps_magic",
                 "stop", "clean">>

\* adbd_mode that removes the staged files before it closes the session
adbd_mode_clean_first ==
  <<"thread_start", "sleep", "check", "connect", "locate", "walk", "caps_adbd",
    "ids_adbd", "selinux", "read_cred", "ids_magic", "caps_magic", "clean", "stop">>

adbd_mode == <<"thread_start", "sleep", "check", "connect", "locate", "walk",
               "caps_adbd", "ids_adbd", "selinux", "read_cred", "ids_magic",
               "caps_magic", "stop", "clean">>

\* __main__: kernel_version(), then options.mode_function(options)
MainProgram ==
  <<"kernel_version">> \o
    (IF mode = "single" THEN single_mode
     ELSE IF mode = "setuid" THEN setuid_mode ELSE adbd_mode)

Step == IF ip \in 1..Len(MainProgram) THEN MainProgram[ip] ELSE "end"

Running == outcome = "running"

cfgv == <<mode, stealth, uname, mem0, names>>
locv == <<addresses, candidates, ci, ptr1, readLog>>
walkv == <<cur, parent>>
patchv == <<wq, writeLog, call>>
sessv == <<gdb, stops, afterExit>>

\* the statement ends normally: on to the next one
Advance(fn, arg) ==
  /\ ip' = ip + 1
  /\ sub' = ""
  /\ outcome' = IF ip + 1 > Len(MainProgram) THEN "done" ELSE "running"
  /\ trace' = Append(trace, [fn |-> fn, arg |-> arg])

\* the statement raises (or exits): nothing catches it, the main thread ends
Fail(kind) ==
  /\ outcome' = kind
  /\ UNCHANGED <<ip, sub, trace>>

RECURSIVE Late(_, _)
\* how many of the commands evs, sent in this order to a gdb that has
\* exited already or not, are requests sent after its exit
Late(exited, evs) ==
  IF evs = <<>> THEN 0
  ELSE IF Head(evs) = "exit" THEN Late(TRUE, Tail(evs))
  ELSE (IF exited THEN 1 ELSE 0) + Late(exited, Tail(evs))

\* the commands evs are sent to gdb, in this order; "exit" is stop()
Sent(evs) ==
  LET exits == Len(SelectSeq(evs, LAMBDA e : e = "exit"))
  IN /\ gdb' = IF exits > 0 THEN "closed" ELSE gdb
     /\ stops' = stops + exits
     /\ afterExit' = afterExit + Late(gdb = "closed", evs)

\* what a read_mem call sent
AfterRead(r) == Sent(r.evs)

-----------------------------------------------------------------------------
(* The main thread *)

\* options.version, ... = kernel_version()
KernelVersion ==
  /\ Running /\ Step = "kernel_version"
  /\ \E present \in BOOLEAN :
       IF ~present
       THEN Fail("DeviceInvalid") /\ UNCHANGED options
       ELSE LET o == kernel_version(ParseVer(uname))
            IN IF o = NoOptions
               THEN Fail("NotImplementedError") /\ UNCHANGED options
               ELSE options' = o /\ Advance("kernel_version", None)
  /\ UNCHANGED <<cfgv, locv, walkv, patchv, sessv, mem, magic, adbd_cred_ptr,
                 magic_cred_ptr, lastRead, bg, cleaned, checked>>

\* thread = threading.Thread(...); thread.start()
ThreadStart ==
  /\ Running /\ Step = "thread_start"
  /\ bg' = "started"
  /\ Advance("thread.start", None)
  /\ UNCHANGED <<cfgv, locv, walkv, patchv, sessv, mem, options, magic,
                 adbd_cred_ptr, magic_cred_ptr, lastRead, cleaned, checked>>

\* time.sleep(5)
Sleep ==
  /\ Running /\ Step = "sleep"
  /\ Advance("time.sleep", None)
  /\ UNCHANGED <<cfgv, locv, walkv, patchv, sessv, mem, options, magic,
                 adbd_cred_ptr, magic_cred_ptr, lastRead, bg, cleaned, checked>>

\* process in ps: whether the name occurs in the listing.  other is whether
\* it occurs on a line of a process this run did not start (the process of
\* single mode, a STAGER shell an earlier run left looping); in the staged
\* modes it occurs as well while the stager thread's STAGER shell runs
Listed(other) == IF mode = "single" THEN other ELSE other \/ bg \in {"running", "chown"}

\* check_process_is_running(...)
CheckProcess ==
  /\ Running /\ Step = "check"
  /\ \E present \in BOOLEAN, other \in BOOLEAN :
       IF ~present THEN Fail("DeviceInvalid") /\ UNCHANGED checked
       ELSE /\ checked' = bg
            /\ IF Listed(other) THEN Advance("check_process_is_running", None)
               ELSE Fail("exit1")
  /\ UNCHANGED <<cfgv, locv, walkv, patchv, sessv, mem, options, magic,
                 adbd_cred_ptr, magic_cred_ptr, lastRead, bg, cleaned>>

\* what GdbController() and the answer to "target remote :1234" can be: no
\* gdb to start, no answer in time, a record whose payload is None before
\* any "Remote debugging" line, a "Remote debugging" line, none
ConnectResponses == {"nogdb", "timeout", "nonepayload", "reached", "unreachable"}

\* gdbsc = GDB_stub_controller(options): only the for loop's else branch
\* calls stop() before it raises
Connect ==
  /\ Running /\ Step = "connect"
  /\ \E resp \in ConnectResponses :
       /\ gdb' = IF resp = "nogdb" THEN gdb
                 ELSE IF resp = "unreachable" THEN "closed" ELSE "open"
       /\ stops' = IF resp = "unreachable" THEN stops + 1 ELSE stops
       /\ IF resp = "reached" THEN Advance("GDB_stub_controller", None)
          ELSE IF resp = "unreachable" THEN Fail("GdbUnreachable")
          ELSE IF resp = "timeout" THEN Fail("GdbTimeoutError")
          ELSE IF resp = "nonepayload" THEN Fail("TypeError")
          ELSE Fail("FileNotFoundError")
  /\ UNCHANGED <<cfgv, locv, walkv, patchv, mem, options, magic, adbd_cred_ptr, afterExit,
                 magic_cred_ptr, lastRead, bg, cleaned, checked>>

\* get_process_task_struct: addresses = self.find(process) and the filter
Find ==
  /\ Running /\ Step = "locate" /\ sub = ""
  /\ \/ \E found \in FindResults(options) :
          /\ addresses' = found
          /\ candidates' = Candidates(options, found)
          /\ ci' = 1
          /\ ptr1' = None
          /\ readLog' = {}
          /\ sub' = "read1"
          /\ UNCHANGED <<ip, outcome, trace>>
     \/ /\ \E e \in FindFailures : Fail(e)
        /\ UNCHANGED locv
  /\ Sent(<<"find">>)
  /\ UNCHANGED <<cfgv, walkv, patchv, mem, options, magic, adbd_cred_ptr,
                 magic_cred_ptr, lastRead, bg, cleaned, checked>>

\* get_process_task_struct: magic_cred_ptr1 = self.read_mem(c - 8)
LocateRead1 ==
  /\ Running /\ Step = "locate" /\ sub = "read1" /\ ci <= Len(candidates)
  /\ LET c == candidates[ci]
     IN \E resps \in ReadResponses(c - 8) :
          LET r == read_mem(c - 8, 0, resps)
          IN /\ lastRead' = ReadRecord(c - 8, resps, r)
             /\ readLog' = readLog \cup {[for |-> c, addr |-> c - 8]}
             /\ AfterRead(r)
             /\ IF r.raised
                THEN Fail("GdbTimeoutQuit") /\ UNCHANGED ptr1
                ELSE ptr1' = r.ret /\ sub' = "read2" /\ UNCHANGED <<ip, outcome, trace>>
  /\ UNCHANGED <<cfgv, addresses, candidates, ci, walkv, patchv, mem, options,
                 magic, adbd_cred_ptr, magic_cred_ptr, bg, cleaned, checked>>

\* get_process_task_struct: magic_cred_ptr2 = self.read_mem(c - 4) and the test
LocateRead2 ==
  /\ Running /\ Step = "locate" /\ sub = "read2"
  /\ LET c == candidates[ci]
     IN \E resps \in ReadResponses(c - 4) :
          LET r == read_mem(c - 4, 0, resps)
          IN /\ lastRead' = ReadRecord(c - 4, resps, r)
             /\ readLog' = readLog \cup {[for |-> c, addr |-> c - 4]}
             /\ AfterRead(r)
             /\ IF r.raised
                THEN Fail("GdbTimeoutQuit") /\ UNCHANGED <<ci, magic>>
                ELSE IF PyEq(ptr1, r.ret)
                THEN /\ magic' = PyInt(c - options.offset_to_comm)
                     /\ sub' = "return"
                     /\ UNCHANGED <<ip, outcome, trace, ci>>
                ELSE /\ ci' = ci + 1
                     /\ sub' = "read1"
                     /\ UNCHANGED <<ip, outcome, trace, magic>>
  /\ UNCHANGED <<cfgv, addresses, candidates, ptr1, walkv, patchv, mem, options,
                 adbd_cred_ptr, magic_cred_ptr, bg, cleaned, checked>>

\* get_process_task_struct: raise Exception("Could not find process task struct")
LocateExhausted ==
  /\ Running /\ Step = "locate" /\ sub = "read1" /\ ci > Len(candidates)
  /\ Fail("StructNotFound")
  /\ UNCHANGED <<cfgv, locv, walkv, patchv, sessv, mem, options, magic,
                 adbd_cred_ptr, magic_cred_ptr, lastRead, bg, cleaned, checked>>

\* get_process_task_struct returns: its locals are gone
LocateReturn ==
  /\ Running /\ Step = "locate" /\ sub = "return"
  /\ addresses' = <<>> /\ candidates' = <<>> /\ ci' = 0 /\ ptr1' = None
  /\ readLog' = {}
  /\ Advance("get_process_task_struct", magic)
  /\ UNCHANGED <<cfgv, walkv, patchv, sessv, mem, options, magic, adbd_cred_ptr,
                 magic_cred_ptr, lastRead, bg, cleaned, checked>>

\* get_adbd_cred_struct: parent_struct_addr = self.read_mem(cur + offset_to_comm - offset_to_parent),
\* with cur = stager_addr on entry
WalkParent ==
  /\ Running /\ Step = "walk" /\ sub \in {"", "parent"}
  /\ LET c == IF sub = "" THEN Val(magic) ELSE cur
         a == c + options.offset_to_comm - options.offset_to_parent
     IN \E resps \in ReadResponses(a) :
          LET r == read_mem(a, 0, resps)
          IN /\ lastRead' = ReadRecord(a, resps, r)
             /\ AfterRead(r)
             /\ cur' = c
             /\ IF r.raised
                THEN Fail("GdbTimeoutQuit") /\ UNCHANGED parent
                ELSE parent' = r.ret /\ sub' = "name" /\ UNCHANGED <<ip, outcome, trace>>
  /\ UNCHANGED <<cfgv, locv, patchv, mem, options, magic, adbd_cred_ptr,
                 magic_cred_ptr, bg, cleaned, checked>>

\* get_adbd_cred_struct: parent_struct_name = self.read_str(parent_struct_addr + offset_to_comm),
\* the comparison with '"adbd"', and cur = parent_struct_addr
WalkName ==
  /\ Running /\ Step = "walk" /\ sub = "name"
  /\ IF ~IsInt(parent)
     THEN Fail("TypeError") /\ UNCHANGED <<cur, sessv>>
     ELSE LET a == Val(parent) + options.offset_to_comm
          IN /\ Sent(<<"x/s">>)
             /\ \E resp \in StrResponses(a) :
                  IF resp \in StrFailures
                  THEN Fail(resp) /\ UNCHANGED cur
                  ELSE IF names[a] = "\"adbd\""
                  THEN sub' = "cred" /\ UNCHANGED <<ip, outcome, trace, cur>>
                  ELSE cur' = Val(parent) /\ sub' = "parent" /\ UNCHANGED <<ip, outcome, trace>>
  /\ UNCHANGED <<cfgv, locv, patchv, mem, options, magic, parent,
                 adbd_cred_ptr, magic_cred_ptr, lastRead, bg, cleaned, checked>>

\* get_adbd_cred_struct: adbd_cred_ptr = self.read_mem(parent_struct_addr + offset_to_comm - 4),
\* break, return
WalkCred ==
  /\ Running /\ Step = "walk" /\ sub = "cred"
  /\ LET a == Val(parent) + options.offset_to_comm - 4
     IN \E resps \in ReadResponses(a) :
          LET r == read_mem(a, 0, resps)
          IN /\ lastRead' = ReadRecord(a, resps, r)
             /\ AfterRead(r)
             /\ IF r.raised
                THEN Fail("GdbTimeoutQuit") /\ UNCHANGED adbd_cred_ptr
                ELSE adbd_cred_ptr' = r.ret /\ Advance("get_adbd_cred_struct", r.ret)
  /\ UNCHANGED <<cfgv, locv, walkv, patchv, mem, options, magic, magic_cred_ptr,
                 bg, cleaned, checked>>

\* magic_cred_ptr = gdbsc.read_mem(magic + options.offset_to_comm - 8)
ReadMagicCred ==
  /\ Running /\ Step = "read_cred"
  /\ LET a == Val(magic) + options.offset_to_comm - 8
     IN \E resps \in ReadResponses(a) :
          LET r == read_mem(a, 0, resps)
          IN /\ lastRead' = ReadRecord(a, resps, r)
             /\ AfterRead(r)
             /\ IF r.raised
                THEN Fail("GdbTimeoutQuit") /\ UNCHANGED magic_cred_ptr
                ELSE magic_cred_ptr' = r.ret /\ Advance("read_mem", r.ret)
  /\ UNCHANGED <<cfgv, locv, walkv, patchv, mem, options, magic, adbd_cred_ptr,
                 bg, cleaned, checked>>

\* the credential a patch statement of the mode is called on
CredArg(step) ==
  IF step \in {"caps_adbd", "ids_adbd"} THEN adbd_cred_ptr ELSE magic_cred_ptr

\* adbd_mode that passes no effective argument
EffectiveArgDefault(step) == TRUE

\* the effective argument of a set_root_ids statement:
\* set_root_ids(adbd_cred_ptr, effective=not options.stealth) in adbd_mode,
\* the default True elsewhere
EffectiveArg(step) == IF step = "ids_adbd" THEN ~stealth ELSE TRUE

\* a patch function is entered: cred_addr + ofs raises TypeError on None
\* before anything is written
Enter(fn, cred, effective, writes) ==
  /\ call' = [fn |-> fn, cred |-> cred, effective |-> effective, mem |-> mem,
              done |-> FALSE]
  /\ writeLog' = <<>>
  /\ wq' = writes
  /\ sub' = "write"
  /\ UNCHANGED <<ip, outcome, trace>>

\* gdbsc.set_full_capabilities(cred)
SetFullCapabilities ==
  /\ Running /\ Step \in {"caps_adbd", "caps_magic"} /\ sub = ""
  /\ LET cred == CredArg(Step)
     IN IF ~IsInt(cred)
        THEN Fail("TypeError") /\ UNCHANGED patchv
        ELSE Enter("set_full_capabilities", cred, TRUE, set_full_capabilities(Val(cred)))
  /\ UNCHANGED <<cfgv, locv, walkv, sessv, mem, options, magic, adbd_cred_ptr,
                 magic_cred_ptr, lastRead, bg, cleaned, checked>>

\* gdbsc.set_root_ids(cred, effective)
SetRootIds ==
  /\ Running /\ Step \in {"ids_adbd", "ids_magic"} /\ sub = ""
  /\ LET cred == CredArg(Step)
     IN IF ~IsInt(cred)
        THEN Fail("TypeError") /\ UNCHANGED patchv
        ELSE Enter("set_root_ids", cred, EffectiveArg(Step),
                   set_root_ids(Val(cred), EffectiveArg(Step)))
  /\ UNCHANGED <<cfgv, locv, walkv, sessv, mem, options, magic, adbd_cred_ptr,
                 magic_cred_ptr, lastRead, bg, cleaned, checked>>

\* gdbsc.disable_selinux()
DisableSelinux ==
  /\ Running /\ Step = "selinux" /\ sub = ""
  /\ Enter("disable_selinux", None, TRUE, disable_selinux(options))
  /\ UNCHANGED <<cfgv, locv, walkv, sessv, mem, options, magic, adbd_cred_ptr,
                 magic_cred_ptr, lastRead, bg, cleaned, checked>>

\* write_mem(addr, val): the next write of the running patch function; the
\* function returns after its last one
WriteMem ==
  /\ Running /\ sub = "write" /\ wq # <<>>
  /\ LET w == Head(wq)
     IN /\ writeLog' = Append(writeLog, w.addr)
        /\ \E resp \in WriteResponses :
             /\ mem' = IF resp = "timeout" THEN mem ELSE Written(mem, w)
             /\ IF resp = "ok"
                THEN /\ wq' = Tail(wq)
                     /\ IF Tail(wq) = <<>>
                        THEN call' = [call EXCEPT !.done = TRUE] /\ Advance(call.fn, call.cred)
                        ELSE UNCHANGED <<call, ip, sub, outcome, trace>>
                ELSE Fail("GdbTimeoutError") /\ UNCHANGED <<wq, call>>
  /\ Sent(<<"set">>)
  /\ UNCHANGED <<cfgv, locv, walkv, options, magic, adbd_cred_ptr,
                 magic_cred_ptr, lastRead, bg, cleaned, checked>>

\* gdbsc.stop()
Stop ==
  /\ Running /\ Step = "stop"
  /\ Sent(<<"exit">>)
  /\ Advance("stop", None)
  /\ UNCHANGED <<cfgv, locv, walkv, patchv, mem, options, magic, adbd_cred_ptr,
                 magic_cred_ptr, lastRead, bg, cleaned, checked>>

\* stager_clean(options.device)
StagerClean ==
  /\ Running /\ Step = "clean"
  /\ \E present \in BOOLEAN :
       IF present
       THEN cleaned' = TRUE /\ Advance("stager_clean", None)
       ELSE Fail("AttributeError") /\ UNCHANGED cleaned
  /\ UNCHANGED <<cfgv, locv, walkv, patchv, sessv, mem, options, magic,
                 adbd_cred_ptr, magic_cred_ptr, lastRead, bg, checked>>

-----------------------------------------------------------------------------
(* The adb_stager thread *)

\* the task of the target that is the STAGER shell
HelperNode == 1

\* "chown root:root" of the script succeeds once the shell that runs it has
\* CAP_CHOWN in the effective set of its credential, or filesystem uid 0
ChownSucceeds ==
  LET c == mem[NameAddr(options, HelperNode) - 4]
  IN mem[c + 56] = AllCaps \/ mem[c + 28] = 0

\* adb_stager_process up to the launch of the STAGER shell
StagerLaunch ==
  /\ bg = "started"
  /\ \E present \in BOOLEAN : bg' = IF present THEN "running" ELSE "exited"
  /\ UNCHANGED <<cfgv, locv, walkv, patchv, sessv, mem, options, ip, sub, outcome, trace,
                 magic, adbd_cred_ptr, magic_cred_ptr, lastRead, cleaned, checked>>

\* load.sh: "sleep 5" of its loop
StagerSleep ==
  /\ bg = "running"
  /\ bg' = "chown"
  /\ UNCHANGED <<cfgv, locv, walkv, patchv, sessv, mem, options, ip, sub, outcome, trace,
                 magic, adbd_cred_ptr, magic_cred_ptr, lastRead, cleaned, checked>>

\* load.sh: "chown root:root" fails, the loop goes round
StagerRetry ==
  /\ bg = "chown"
  /\ ~ChownSucceeds
  /\ bg' = "running"
  /\ UNCHANGED <<cfgv, locv, walkv, patchv, sessv, mem, options, ip, sub, outcome, trace,
                 magic, adbd_cred_ptr, magic_cred_ptr, lastRead, cleaned, checked>>

\* load.sh: "chown root:root" succeeds, the script leaves its loop and runs
\* to its end, device.shell("/data/local/tmp/STAGER /data/local/tmp/load.sh")
\* returns
StagerExit ==
  /\ bg = "chown"
  /\ ChownSucceeds
  /\ bg' = "exited"
  /\ UNCHANGED <<cfgv, locv, walkv, patchv, sessv, mem, options, ip, sub, outcome, trace,
                 magic, adbd_cred_ptr, magic_cred_ptr, lastRead, cleaned, checked>>

-----------------------------------------------------------------------------
(* The runs *)

Majors == -1..MaxMajor
Digits == {0, 1, 4, 8, 9}
MinorStrings == UNION {[1..k -> Digits] : k \in 1..MaxMinorDigits}
Unames == [major : Majors, minor : MinorStrings]

Modes == {"single", "setuid", "adbd"}

\* the process trees and credential pointers of the target
Layouts ==
  [parent : [Nodes -> Nodes], adbd : SUBSET Nodes, rc : [Nodes -> Creds],
   cr : [Nodes -> Creds], ueq : BOOLEAN]

\* STAGER -> sh -> adbd, each task with equal real_cred and cred pointers
Layout0 ==
  [parent |-> <<2, 3, 3>>, adbd |-> {3}, rc |-> <<1, 1, 2>>, cr |-> <<1, 1, 2>>,
   ueq |-> TRUE]

\* the state after argument parsing, on target memory laid out as L
InitOf(u, m, st, L) ==
  LET o == IF kernel_version(ParseVer(u)) = NoOptions THEN ProfileA
           ELSE kernel_version(ParseVer(u))
  IN /\ uname = u /\ mode = m /\ stealth = st
     /\ options = NoOptions
     /\ ip = 1 /\ sub = "" /\ outcome = "running"
     /\ gdb = "none" /\ stops = 0
     /\ mem = MemoryOf(o, L) /\ mem0 = MemoryOf(o, L) /\ names = NamesOf(o, L)
     /\ addresses = <<>> /\ candidates = <<>> /\ ci = 0 /\ ptr1 = None
     /\ magic = None /\ cur = 0 /\ parent = None
     /\ adbd_cred_ptr = None /\ magic_cred_ptr = None
     /\ wq = <<>> /\ writeLog = <<>>
     /\ call = [fn |-> "", cred |-> None, effective |-> TRUE, mem |-> MemoryOf(o, L),
                done |-> FALSE]
     /\ lastRead = NoRead /\ readLog = {}
     /\ bg = "none" /\ cleaned = FALSE
     /\ trace = <<>> /\ afterExit = 0 /\ checked = ""

\* --stealth exists in adbd mode only
ModeFlags == {<<m, st>> \in Modes \X BOOLEAN : st => m = "adbd"}

V(major, minor) == [major |-> major, minor |-> minor]

\* every mode on the plain layout, under both profiles
BaseRuns ==
  {[u |-> u, m |-> f[1], st |-> f[2], L |-> Layout0] :
     u \in {V(3, <<1, 0>>), V(3, <<1, 8>>)}, f \in ModeFlags}

\* the workflow runs: every mode on every pair of credential pointers of
\* the helper and of adbd
WorkflowRuns ==
  BaseRuns \cup
  {[u |-> V(3, <<1, 0>>), m |-> f[1], st |-> f[2], L |-> L] :
     f \in ModeFlags,
     L \in {X \in Layouts : /\ X.parent = Layout0.parent /\ X.adbd = {3}
                            /\ X.ueq /\ X.rc[2] = 1 /\ X.cr[2] = 1
                            /\ X.rc[3] = X.cr[3]}}

\* the version runs: every reported version, in single mode
VersionRuns ==
  BaseRuns \cup {[u |-> u, m |-> "single", st |-> FALSE, L |-> Layout0] : u \in Unames}

\* the locate runs: every choice of real_cred and cred pointers and of the
\* words before the stray match, in single mode under both profiles
LocateRuns ==
  BaseRuns \cup
  {[u |-> u, m |-> "single", st |-> FALSE, L |-> L] :
     u \in {V(3, <<1, 0>>), V(3, <<1, 8>>)},
     L \in {X \in Layouts : X.parent = Layout0.parent /\ X.adbd = {3}}}

\* the walk runs: every parent map and at most one task named adbd, in
\* setuid mode
WalkRuns ==
  BaseRuns \cup
  {[u |-> V(3, <<1, 0>>), m |-> "setuid", st |-> FALSE, L |-> L] :
     L \in {X \in Layouts : /\ Cardinality(X.adbd) <= 1 /\ X.ueq
                            /\ X.rc = Layout0.rc /\ X.cr = Layout0.cr}}

InitRuns(R) == \E r \in R : InitOf(r.u, r.m, r.st, r.L)

Init == InitRuns(WorkflowRuns)
InitVersions == InitRuns(VersionRuns)
InitLocate == InitRuns(LocateRuns)
InitWalk == InitRuns(WalkRuns)

Main ==
  \/ KernelVersion \/ ThreadStart \/ Sleep \/ CheckProcess \/ Connect
  \/ Find \/ LocateRead1 \/ LocateRead2 \/ LocateExhausted \/ LocateReturn
  \/ WalkParent \/ WalkName \/ WalkCred \/ ReadMagicCred
  \/ SetFullCapabilities \/ SetRootIds \/ DisableSelinux \/ WriteMem
  \/ Stop \/ StagerClean

Stager == StagerLaunch \/ StagerSleep \/ StagerRetry \/ StagerExit

Next == Main \/ Stager

\* the three modes on the workflow layouts
Spec == Init /\ [][Next]_vars

\* kernel_version over every reported version
SpecVersions == InitVersions /\ [][Next]_vars

\* get_process_task_struct over every layout of the words before the matches
SpecLocate == InitLocate /\ [][Next]_vars

\* get_adbd_cred_struct over every process tree
SpecWalk == InitWalk /\ [][Next]_vars

\* the same, with a main thread that runs as long as it has a next statement
FairWalk == InitWalk /\ [][Next]_vars /\ WF_vars(Main)

\* the three modes on the workflow layouts, the main thread and the
\* adb_stager thread each running on while it can
FairStaged == Init /\ [][Next]_vars /\ WF_vars(Main) /\ WF_vars(Stager)

-----------------------------------------------------------------------------
(* Properties *)

Range(q) == {q[i] : i \in DOMAIN q}

\* the main thread has ended, normally or not
Ended == outcome # "running"

\* C1: once the debug session has been opened, it has been closed by the
\* time the workflow ends, whatever way it ends.
C1_SessionClosedOnEveryExit == (Ended /\ gdb # "none") => gdb = "closed"

\* C2: a read_mem call whose first response is malformed and whose retry
\* response is well-formed does not raise and returns the word read.
C2_RetryReturnsValue ==
  lastRead.resps = <<"bad", "ok">> =>
    ~lastRead.raised /\ lastRead.ret = PyInt(lastRead.word)

\* the main thread is inside get_adbd_cred_struct
Walking == Running /\ Step = "walk"

\* C3: the ancestry walk is bounded: whenever get_adbd_cred_struct is
\* running, it eventually returns or fails.
C3_WalkTerminates == Walking ~> ~Walking

\* the two words before address c are equal in memory
DupWords(c) == c - 8 \in DOMAIN mem /\ c - 4 \in DOMAIN mem /\ mem[c - 8] = mem[c - 4]

\* get_process_task_struct has chosen its candidate and is about to return
Located == Step = "locate" /\ sub = "return"

\* the candidate get_process_task_struct accepted
Accepted == Val(magic) + options.offset_to_comm

\* C4: a search result is accepted as the name-field address only if it is
\* aligned like offset_to_comm and the memory words at c-8 and c-4 are equal.
C4_AcceptedOnlyIfValid ==
  Located => Aligned(options, Accepted) /\ DupWords(Accepted)

\* the search results that pass the alignment check and have equal words before them
Valid(found) == SelectSeq(found, LAMBDA a : Aligned(options, a) /\ DupWords(a))

\* C5: get_process_task_struct returns c - offset_to_comm for the first
\* valid search result c, and fails with the struct-not-found error, returning
\* nothing, when no search result is valid.
C5_FirstValidWins ==
  /\ Located => Valid(addresses) # <<>> /\ Accepted = Head(Valid(addresses))
  /\ (Step = "locate" /\ outcome = "StructNotFound") => Valid(addresses) = <<>>
  /\ (Step = "locate" /\ sub = "read1" /\ Running /\ ci > Len(candidates))
       => Valid(addresses) = <<>>

\* C6: get_process_task_struct issues word reads only on behalf of aligned
\* search results, at their c-8 and c-4, and never returns an unaligned one.
C6_UnalignedNeverRead ==
  Step = "locate" =>
    /\ \A r \in readLog :
         /\ r.for \in Range(addresses)
         /\ Aligned(options, r.for)
         /\ r.addr \in {r.for - 8, r.for - 4}
    /\ Located => Aligned(options, Accepted)

\* C6 witness: the search returned an unaligned address whose preceding words
\* are equal, reads were issued, and the function returned or gave up.
C6_Witness ==
  /\ Step = "locate"
  /\ \E a \in Range(addresses) : ~Aligned(options, a) /\ DupWords(a)
  /\ readLog # {}
  /\ (Located \/ outcome = "StructNotFound")

\* the reported version as major.minor, compared part by part
TwoPartLE(u, major, minor) ==
  u.major < major \/ (u.major = major /\ DigitsValue(u.minor) <= minor)

\* kernel_version has run on a device that was there
Resolved == (ip > 1 \/ Ended) /\ outcome # "DeviceInvalid"

\* C7: a version v <= 3.10, read as major.minor, resolves to the first
\* profile, and a version with 3.10 < v <= 3.18 to the second.
C7_TwoPartBrackets ==
  Resolved =>
    /\ TwoPartLE(uname, 3, 10) => options = ProfileA
    /\ (~TwoPartLE(uname, 3, 10) /\ TwoPartLE(uname, 3, 18)) => options = ProfileB

\* kernel_version refused the version, and nothing was opened or written
Refused ==
  /\ ip = 1 /\ outcome \in {"running", "NotImplementedError", "DeviceInvalid"}
  /\ options = NoOptions
  /\ gdb = "none" /\ stops = 0
  /\ mem = mem0 /\ writeLog = <<>>

\* C8 as stated: every version greater than 3.18 and every version less
\* than 0 is refused, with no session opened and no write issued.
C8_RefusedAbove318OrBelow0 ==
  (ParseVer(uname) > Ver_3_18 \/ ParseVer(uname) < 0) => Refused

\* C8 amended: every version greater than 3.18 is refused, with no session
\* opened and no write issued.
C8_RefusedAbove318 == ParseVer(uname) > Ver_3_18 => Refused

\* C8 witness: a version above 3.18 ended in NotImplementedError.
C8_Witness == ParseVer(uname) > Ver_3_18 /\ outcome = "NotImplementedError"

\* the offsets set_root_ids is to write
IdOffsets(effective) == {4, 8, 12, 16, 28, 32} \cup (IF effective THEN {20, 24} ELSE {})

\* a set_root_ids call has returned
RootIdsDone == call.fn = "set_root_ids" /\ call.done

\* C9: set_root_ids(cred, effective) writes 0 to the six offsets 0x04, 0x08,
\* 0x0C, 0x10, 0x1C, 0x20 from cred, and to 0x14 and 0x18 as well exactly
\* when effective is true; every other word keeps its value.
C9_RootIdsFrame ==
  RootIdsDone =>
    LET W == {Val(call.cred) + f : f \in IdOffsets(call.effective)}
    IN /\ Range(writeLog) = W
       /\ \A a \in DOMAIN mem : mem[a] = IF a \in W THEN 0 ELSE call.mem[a]

\* C9 witness: set_root_ids(cred, effective=False) returned on a credential
\* whose effective ids were not 0.
C9_Witness ==
  /\ RootIdsDone /\ ~call.effective
  /\ mem[Val(call.cred) + 20] # 0 /\ mem[Val(call.cred) + 24] # 0
  /\ mem[Val(call.cred) + 4] = 0

\* adbd mode with --stealth ran to its end
StealthDone == mode = "adbd" /\ stealth /\ outcome = "done"

\* the daemon's effective uid and gid are what they were before the run
EffectiveKept ==
  /\ mem[Val(adbd_cred_ptr) + 20] = mem0[Val(adbd_cred_ptr) + 20]
  /\ mem[Val(adbd_cred_ptr) + 24] = mem0[Val(adbd_cred_ptr) + 24]

\* C10 as stated: in adbd mode with the stealth flag, on every memory
\* layout, the words at adbd_cred+0x14 and adbd_cred+0x18 hold at the end
\* the values they had before the run.
C10_StealthKeepsEffective == StealthDone => EffectiveKept

\* the addresses the workflow writes for the helper's credential and for selinux
HelperWrites ==
  {Val(magic_cred_ptr) + f : f \in IdOffsets(TRUE) \cup {48, 52, 56, 60, 64, 68}}
    \cup {options.offset_selinux[i] : i \in 1..3}

\* C10 amended: the same, provided neither word is one the run writes for
\* the helper's own credential or as an enforcement flag (the helper's
\* credential is not the daemon's).
C10_StealthKeepsEffectiveUnlessShared ==
  (StealthDone /\ HelperWrites \cap {Val(adbd_cred_ptr) + 20, Val(adbd_cred_ptr) + 24} = {})
    => EffectiveKept

\* C10 witness: a stealth run ended on distinct credentials, the daemon's
\* real uid zeroed and its effective uid, not 0, kept.
C10_Witness ==
  /\ StealthDone
  /\ magic_cred_ptr # adbd_cred_ptr
  /\ mem[Val(adbd_cred_ptr) + 4] = 0
  /\ mem[Val(adbd_cred_ptr) + 20] # 0

-----------------------------------------------------------------------------
(* The capability patch *)

\* the offsets set_full_capabilities is to write
CapOffsets == {48, 52, 56, 60, 64, 68}

\* a set_full_capabilities call has returned
CapsDone == call.fn = "set_full_capabilities" /\ call.done

RECURSIVE Apply(_, _)
\* the memory after the writes ws, in order, all executed
Apply(m, ws) == IF ws = <<>> THEN m ELSE Apply(Written(m, Head(ws)), Tail(ws))

\* C11: set_full_capabilities(cred) writes 0xFFFFFFFF to exactly the six
\* addresses cred+0x30, 0x34, 0x38, 0x3C, 0x40, 0x44 and every other word
\* keeps its value; applied again, to the memory it left or in the same run
\* to a credential it patched already, it leaves the memory as it is.
C11_CapsFrameIdempotent ==
  CapsDone =>
    LET W == {Val(call.cred) + f : f \in CapOffsets}
    IN /\ Range(writeLog) = W
       /\ \A a \in DOMAIN mem : mem[a] = IF a \in W THEN AllCaps ELSE call.mem[a]
       /\ Apply(mem, set_full_capabilities(Val(call.cred))) = mem
       /\ (\A a \in W : call.mem[a] = AllCaps) => mem = call.mem

\* C11 witness: the second set_full_capabilities call of a run returned, on
\* the credential the first call had patched, whose words were not
\* 0xFFFFFFFF before the run.
C11_Witness ==
  /\ CapsDone
  /\ \A f \in CapOffsets :
       /\ call.mem[Val(call.cred) + f] = AllCaps
       /\ mem0[Val(call.cred) + f] # AllCaps

-----------------------------------------------------------------------------
(* The ancestry walk's result *)

\* the parent pointer and the name of the task_struct at t, as the target's
\* memory holds them (0 and "" where nothing is mapped)
ParentIn(t) ==
  LET a == t + options.offset_to_comm - options.offset_to_parent
  IN IF a \in DOMAIN mem0 THEN mem0[a] ELSE 0
NameIn(t) ==
  IF t + options.offset_to_comm \in DOMAIN names
  THEN names[t + options.offset_to_comm] ELSE ""

RECURSIVE FirstAdbd(_, _)
\* the first ancestor of t named "adbd" within n + 1 steps up the parent
\* pointers, 0 if there is none
FirstAdbd(t, n) ==
  LET p == ParentIn(t)
  IN IF p = 0 THEN 0
     ELSE IF NameIn(p) = "\"adbd\"" THEN p
     ELSE IF n = 0 THEN 0 ELSE FirstAdbd(p, n - 1)

\* get_adbd_cred_struct has just returned
WalkReturned == Running /\ Step = "caps_adbd" /\ sub = ""

\* C12: on a parent chain that leads from the start task to a first
\* ancestor N named "adbd", get_adbd_cred_struct reads each parent pointer
\* at cur + offset_to_comm - offset_to_parent, writes nothing, and returns
\* the word stored at N + offset_to_comm - 4.
C12_WalkReturnsAdbdCred ==
  /\ (Walking /\ sub = "name") =>
       lastRead.addr = cur + options.offset_to_comm - options.offset_to_parent
  /\ Walking => mem = mem0
  /\ WalkReturned =>
       LET N == FirstAdbd(Val(magic), Cardinality(Nodes))
       IN /\ N # 0
          /\ mem = mem0
          /\ adbd_cred_ptr = PyInt(mem0[N + options.offset_to_comm - 4])

-----------------------------------------------------------------------------
(* The retry of a malformed read *)

\* the last read_mem call got two malformed responses
TwiceMalformed == lastRead.resps = <<"bad", "bad">>

\* C13: read_mem sends one request, and one more exactly when the first
\* response is malformed, never a third; when both responses are malformed
\* the session is closed and the run ends with the hard failure; in
\* get_process_task_struct that read is the last one: it is a read for the
\* candidate under examination, no later candidate has been read for and no
\* address is returned.
C13_SecondMalformedAborts ==
  /\ lastRead.resps # <<>> =>
       lastRead.nreq = (IF Head(lastRead.resps) = "ok" THEN 1 ELSE 2)
  /\ TwiceMalformed =>
       /\ lastRead.raised
       /\ gdb = "closed"
       /\ outcome = "GdbTimeoutQuit"
       /\ Step = "locate" =>
            /\ magic = None
            /\ lastRead.addr \in {candidates[ci] - 8, candidates[ci] - 4}
            /\ \A r \in readLog : \E j \in 1..ci : r.for = candidates[j]
  /\ outcome = "GdbTimeoutQuit" => TwiceMalformed

\* C13 witness: the locate was aborted by a second malformed response to a
\* read for the first of two candidates.
C13_Witness ==
  /\ outcome = "GdbTimeoutQuit" /\ Step = "locate"
  /\ TwiceMalformed /\ lastRead.nreq = 2
  /\ ci = 1 /\ Len(candidates) = 2

-----------------------------------------------------------------------------
(* The result of single mode *)

\* single mode ran to its end
SingleDone == mode = "single" /\ outcome = "done"

\* C14: when single_mode has run to its end, the credential of the located
\* process (the one its real_cred word points to) has 0 at the offsets 0x04,
\* 0x08, 0x0C, 0x10, 0x1C, 0x20 and 0xFFFFFFFF at the offsets 0x30 to 0x44,
\* and the three selinux addresses of the profile hold 0.
C14_SingleModePatched ==
  SingleDone =>
    LET c == mem0[Val(magic) + options.offset_to_comm - 8]
    IN /\ magic_cred_ptr = PyInt(c)
       /\ \A f \in IdOffsets(FALSE) : mem[c + f] = 0
       /\ \A f \in CapOffsets : mem[c + f] = AllCaps
       /\ \A i \in 1..3 : mem[options.offset_selinux[i]] = 0

\* C14 witness: single mode ran to its end on a memory whose identity,
\* capability and selinux words had other values before the run.
C14_Witness ==
  /\ SingleDone
  /\ mem0[Val(magic_cred_ptr) + 4] # 0
  /\ mem0[Val(magic_cred_ptr) + 48] # AllCaps
  /\ \A i \in 1..3 : mem0[options.offset_selinux[i]] # 0

-----------------------------------------------------------------------------
(* The end of the adb_stager thread *)

\* C15: in every run of setuid_mode or adbd_mode, once the adb_stager
\* thread has been started it eventually ends, the script it runs having
\* left its loop, whatever way the main thread ends.
C15_StagerCompletes == (bg = "started") ~> (bg = "exited")

-----------------------------------------------------------------------------
(* The order of setuid mode *)

\* the calls of the run so far that are among the functions F
Calls(F) == SelectSeq(trace, LAMBDA e : e.fn \in F)

\* C16: a run of setuid_mode that reaches its end has made these calls,
\* each returning before the next: the check that STAGER runs, the locate
\* of its task_struct, the walk to adbd's credential, set_full_capabilities
\* on adbd's credential, disable_selinux, set_root_ids and then
\* set_full_capabilities on the helper's credential, stop, stager_clean;
\* and in every run of setuid_mode memory is untouched until the walk has
\* returned.
C16_SetuidOrder ==
  mode = "setuid" =>
    /\ outcome = "done" =>
         Calls({"check_process_is_running", "get_process_task_struct",
                "get_adbd_cred_struct", "set_full_capabilities", "disable_selinux",
                "set_root_ids", "stop", "stager_clean"})
           = << [fn |-> "check_process_is_running", arg |-> None],
                [fn |-> "get_process_task_struct", arg |-> magic],
                [fn |-> "get_adbd_cred_struct", arg |-> adbd_cred_ptr],
                [fn |-> "set_full_capabilities", arg |-> adbd_cred_ptr],
                [fn |-> "disable_selinux", arg |-> None],
                [fn |-> "set_root_ids", arg |-> magic_cred_ptr],
                [fn |-> "set_full_capabilities", arg |-> magic_cred_ptr],
                [fn |-> "stop", arg |-> None],
                [fn |-> "stager_clean", arg |-> None] >>
    /\ Calls({"get_adbd_cred_struct"}) = <<>> =>
         mem = mem0 /\ writeLog = <<>> /\ call.fn = ""

\* C16 witness: setuid mode ran to its end, the helper's credential and
\* the daemon's being two.
C16_Witness ==
  /\ mode = "setuid" /\ outcome = "done"
  /\ adbd_cred_ptr # magic_cred_ptr
  /\ mem # mem0

-----------------------------------------------------------------------------
(* The liveness check of the staged modes *)

\* setuid_mode or adbd_mode runs
Staged == mode \in {"setuid", "adbd"}

\* the adb_stager thread's STAGER shell runs
HelperUp(b) == b \in {"running", "chown"}

\* C17: in setuid_mode and adbd_mode a debug session exists, and the locate
\* has sent anything, only after time.sleep returned and then
\* check_process_is_running returned, having found "STAGER" in the listing;
\* and whenever the listing was made while the adb_stager thread had not
\* started the STAGER shell, the run has ended with exit(1), no session was
\* opened and no memory write issued.
C17_CheckGatesSession ==
  Staged =>
    /\ (gdb # "none" \/ lastRead # NoRead \/ addresses # <<>>) =>
         Calls({"time.sleep", "check_process_is_running"})
           = << [fn |-> "time.sleep", arg |-> None],
                [fn |-> "check_process_is_running", arg |-> None] >>
    /\ (checked # "" /\ ~HelperUp(checked)) =>
         /\ outcome = "exit1"
         /\ gdb = "none" /\ stops = 0
         /\ mem = mem0 /\ writeLog = <<>> /\ call.fn = ""

-----------------------------------------------------------------------------
(* The removal of the staged files *)

\* C18: a run of setuid_mode or adbd_mode that reaches its end has executed
\* the "rm" of stager_clean; whenever the "rm" has been executed, stop() had
\* returned before and the session is closed; and a run that ended with a
\* failure has not executed it.
C18_CleanAfterStopOnSuccess ==
  Staged =>
    /\ outcome = "done" => cleaned
    /\ cleaned =>
         /\ gdb = "closed"
         /\ Calls({"stop", "stager_clean"})
              = << [fn |-> "stop", arg |-> None], [fn |-> "stager_clean", arg |-> None] >>
    /\ (Ended /\ outcome # "done") => ~cleaned

\* C18 witness: adbd mode ran to its end and the staged files were removed.
C18_Witness == mode = "adbd" /\ outcome = "done" /\ cleaned /\ stops = 1

-----------------------------------------------------------------------------
(* The closed session *)

\* C19: once stop() has been called on the session (at the end of the
\* mode, after the connection failed, or after a second malformed read) no
\* read, write, find or string-read request is sent to it any more, and
\* stop() is called at most once.
C19_NothingAfterStop ==
  /\ afterExit = 0
  /\ stops <= 1
  /\ gdb = "closed" <=> stops = 1
  /\ gdb = "closed" => (Ended \/ Step \in {"clean", "end"})

\* C19 witness: the session was closed by stop() at the end of a mode
\* after reads, a find, a string read and writes had been sent, and the
\* main thread went on to stager_clean.
C19_Witness ==
  /\ gdb = "closed" /\ stops = 1
  /\ Calls({"set_root_ids", "stop", "stager_clean"})
       = << [fn |-> "set_root_ids", arg |-> magic_cred_ptr],
            [fn |-> "stop", arg |-> None],
            [fn |-> "stager_clean", arg |-> None] >>

====
